---- MODULE Spec2Model ----
(***************************************************************************)
(* Fish_game.py: the hexagonal board, the sliding move generator, the turn *)
(* engine driven by mouse clicks and frame updates, and the minimax search *)
(* of the computer players.                                                *)
(*                                                                         *)
(* A Python dict is a TLA+ function whose DOMAIN is the set of keys, a     *)
(* Python list is a sequence, None is the empty tuple.  Player indices are *)
(* 0-based as in the source.  Every method of FishGame is an operator that *)
(* takes the game object g (a record of the fields of self) and returns    *)
(* the game object after the call; an uncaught exception sets g.crashed    *)
(* and ends the handler.                                                   *)
(***************************************************************************)
EXTENDS Integers, Sequences, FiniteSets, TLC

VARIABLES tiles, penguin_positions, players, current_player_index,
          game_state, selected_penguin, valid_moves, current_animation,
          animation_queue, ai_move_timer, minimax_depth, move_history,
          winners, crashed

vars == <<tiles, penguin_positions, players, current_player_index,
          game_state, selected_penguin, valid_moves, current_animation,
          animation_queue, ai_move_timer, minimax_depth, move_history,
          winners, crashed>>

----------------------------------------------------------------------------
(* Bounds of the model.                                                    *)

\* rows of the board (HexGrid(6, 8) in the source, scaled down)
Rows == 3
\* columns of the board
Cols == 4
\* number of generated boards explored (seeds of the tile generator)
NumBoards == 2
\* frames an animation lasts (1.0 / animation_speed = 20 in the source)
AnimFrames == 2
\* moves a human can have waiting in animation_queue
MaxQueue == 1
\* free tiles, in row-major order, a human placement click is drawn from
PlaceChoices == 1
\* penguins of a search position stand on the first SearchCells cells
SearchCells == 10

----------------------------------------------------------------------------
(* Program constants.                                                      *)

\* GameState enum
SETUP == "setup"
PLACING_PENGUINS == "placing"
PLAYING == "playing"
GAME_OVER == "game_over"

None == <<>>

\* on_update: ai_move_timer > 1.0 while placing, > 1.5 while playing
\* (tenths of a second)
PlaceDelay == 10
MoveDelay == 15
\* frame durations explored, in tenths of a second
DeltaTimes == {8, 16}
\* _ai_place_penguin: choose among the top 3 tiles
TopTiles == 3
\* penguins per player: 6 - len(players)
PenguinBase == 6
\* move_history keeps the last 10 moves
HistoryCap == 10
\* float('inf') of the search, larger than any evaluation (scaled by 60)
Infinity == 1000000
\* the deepest search the settings offer (SettingsView: range(1, 6))
MaxDepth == 5

Cells == (0..(Rows - 1)) \X (0..(Cols - 1))

----------------------------------------------------------------------------
(* Helpers on dicts and lists.                                             *)

\* d.pop(k) / del d[k]
DictDel(d, k) == [x \in (DOMAIN d) \ {k} |-> d[x]]

\* d[k] = v
DictSet(d, k, v) == [x \in (DOMAIN d) \cup {k} |-> IF x = k THEN v ELSE d[x]]

\* x in list
InList(x, list) == \E i \in 1..Len(list) : list[i] = x

\* list.remove(x): drops the first occurrence (the caller checks InList)
ListRemove(list, x) ==
    LET i == CHOOSE k \in 1..Len(list) :
                 list[k] = x /\ \A j \in 1..(k - 1) : list[j] # x
    IN  SubSeq(list, 1, i - 1) \o SubSeq(list, i + 1, Len(list))

----------------------------------------------------------------------------
(* HexGrid and the move generator.                                         *)

\* direction labels in the insertion order of the neighbors dict
Directions == <<"E", "NE", "NW", "W", "SW", "SE">>

\* a variant that reads the even-column table whatever the column
neighbors_ignoring_parity(pos, direction_id) ==
    LET row == pos[1]
        col == pos[2]
    IN  CASE direction_id = "E"  -> <<row, col + 1>>
          [] direction_id = "NE" -> <<row - 1, col + 1>>
          [] direction_id = "NW" -> <<row - 1, col>>
          [] direction_id = "W"  -> <<row, col - 1>>
          [] direction_id = "SW" -> <<row + 1, col>>
          [] direction_id = "SE" -> <<row + 1, col + 1>>

\* FishGame._get_hex_neighbors_with_direction(row, col)[direction_id]
get_hex_neighbors_with_direction(pos, direction_id) ==
    LET row == pos[1]
        col == pos[2]
    IN  IF col % 2 = 0
        THEN CASE direction_id = "E"  -> <<row, col + 1>>
               [] direction_id = "NE" -> <<row - 1, col + 1>>
               [] direction_id = "NW" -> <<row - 1, col>>
               [] direction_id = "W"  -> <<row, col - 1>>
               [] direction_id = "SW" -> <<row + 1, col>>
               [] direction_id = "SE" -> <<row + 1, col + 1>>
        ELSE CASE direction_id = "E"  -> <<row, col + 1>>
               [] direction_id = "NE" -> <<row - 1, col>>
               [] direction_id = "NW" -> <<row - 1, col - 1>>
               [] direction_id = "W"  -> <<row, col - 1>>
               [] direction_id = "SW" -> <<row + 1, col - 1>>
               [] direction_id = "SE" -> <<row + 1, col>>

\* FishGame._get_next_in_direction
get_next_in_direction(pos, direction_id) ==
    get_hex_neighbors_with_direction(pos, direction_id)

\* the while loop of _get_valid_moves for one direction, from `current`
RECURSIVE trace_direction(_, _, _, _)

\* a variant that does not stop at a penguin
trace_over_penguins(t, pp, current, direction_id) ==
    IF current \notin DOMAIN t THEN <<>>
    ELSE <<current>> \o
         trace_direction(t, pp, get_next_in_direction(current, direction_id),
                         direction_id)

\* a variant that stops at the edge of the board but not at a hole
trace_over_holes(t, pp, current, direction_id) ==
    IF current \notin Cells THEN <<>>
    ELSE IF current \in DOMAIN pp THEN <<>>
    ELSE <<current>> \o
         trace_direction(t, pp, get_next_in_direction(current, direction_id),
                         direction_id)

trace_direction(t, pp, current, direction_id) ==
    IF current \notin DOMAIN t THEN <<>>
    ELSE IF current \in DOMAIN pp THEN <<>>
    ELSE <<current>> \o
         trace_direction(t, pp, get_next_in_direction(current, direction_id),
                         direction_id)

RECURSIVE trace_all(_, _, _, _)
trace_all(t, pp, start, d) ==
    IF d > Len(Directions) THEN <<>>
    ELSE trace_direction(t, pp,
                         get_hex_neighbors_with_direction(start, Directions[d]),
                         Directions[d])
         \o trace_all(t, pp, start, d + 1)

\* FishGame._get_valid_moves(start) on grid.tiles t and penguin_positions pp
get_valid_moves(t, pp, start) == trace_all(t, pp, start, 1)

\* len(self.players)
NumPlayers(g) == Cardinality(DOMAIN g.players)

\* "for penguin_pos in player.penguins: if self._get_valid_moves(...)":
\* whether some penguin of the list has a destination
can_move(g, p) ==
    \E i \in 1..Len(g.players[p].penguins) :
        get_valid_moves(g.tiles, g.penguin_positions,
                        g.players[p].penguins[i]) # <<>>

\* a variant that asks only the player to move
is_game_over_for_mover(g) == ~can_move(g, g.current_player_index)

\* FishGame._is_game_over
is_game_over(g) == \A p \in DOMAIN g.players : ~can_move(g, p)

----------------------------------------------------------------------------
(* The game object and the live move.                                      *)

\* the fields of self, as one record
\* plies, returns, evaluated and called_for are history fields, not
\* attributes of the source (evaluated: the moves <<from, to>> the loop of
\* _ai_make_move has made and scored; called_for: the players to move at
\* the calls of _ai_place_penguin and _ai_make_move in on_update; totals:
\* the fish on the tiles plus the fish of the players at the nodes
\* _minimax has visited);
\* the pairs <<maximizing, owner of the token moved>> of the moves a search
\* has made, and the triples <<at a leaf, value is finite, player to move at
\* the node>> of the values _minimax has returned
Self ==
    [tiles |-> tiles, penguin_positions |-> penguin_positions,
     players |-> players, current_player_index |-> current_player_index,
     game_state |-> game_state, selected_penguin |-> selected_penguin,
     valid_moves |-> valid_moves, current_animation |-> current_animation,
     animation_queue |-> animation_queue, ai_move_timer |-> ai_move_timer,
     minimax_depth |-> minimax_depth, move_history |-> move_history,
     winners |-> winners, crashed |-> crashed, plies |-> {},
     returns |-> {}, evaluated |-> {}, called_for |-> {}, totals |-> {}]

\* an uncaught exception (KeyError, ValueError) leaves the handler
raise(g) == [g EXCEPT !.crashed = TRUE]

\* a variant that returns the fish count and leaves the tile
remove_tile_keeping(t, pos) ==
    [fish |-> IF pos \in DOMAIN t THEN t[pos] ELSE 0, tiles |-> t,
     raised |-> FALSE]

\* a variant that returns one fish more than the tile held
remove_tile_one_more(t, pos) ==
    IF pos \in DOMAIN t
    THEN [fish |-> t[pos] + 1, tiles |-> DictDel(t, pos), raised |-> FALSE]
    ELSE [fish |-> 0, tiles |-> t, raised |-> FALSE]

\* a variant that removes the tile and returns 0 whatever it held
remove_tile_without_fish(t, pos) ==
    [fish |-> 0, tiles |-> IF pos \in DOMAIN t THEN DictDel(t, pos) ELSE t,
     raised |-> FALSE]

\* HexGrid.remove_tile: the fish count returned, the tiles left, and whether
\* the call raised (it has no raise statement: "return 0" for a missing tile)
remove_tile(t, pos) ==
    IF pos \in DOMAIN t
    THEN [fish |-> t[pos], tiles |-> DictDel(t, pos), raised |-> FALSE]
    ELSE [fish |-> 0, tiles |-> t, raised |-> FALSE]

\* move_history.append(...) and "keep only last 10 moves"
push_history(h, entry) ==
    LET h1 == Append(h, entry)
    IN  IF Len(h1) > HistoryCap THEN Tail(h1) ELSE h1

\* FishGame._move_penguin
move_penguin(g, from_pos, to_pos) ==
    IF from_pos \notin DOMAIN g.penguin_positions
    THEN raise(g)   \* penguin_positions.pop(from_pos): KeyError
    ELSE
    LET player_index == g.penguin_positions[from_pos]
        removed == remove_tile(g.tiles, from_pos)
        fish_collected == removed.fish
        g1 == [g EXCEPT
                 !.penguin_positions =
                     DictSet(DictDel(g.penguin_positions, from_pos),
                             to_pos, player_index),
                 !.tiles = removed.tiles,
                 !.players[player_index].fish_count = @ + fish_collected]
    IN  IF ~InList(from_pos, g.players[player_index].penguins)
        THEN raise(g1)   \* player.penguins.remove(from_pos): ValueError
        ELSE [g1 EXCEPT
                 !.players[player_index].penguins =
                     Append(ListRemove(@, from_pos), to_pos),
                 !.move_history =
                     push_history(@, <<player_index, from_pos, to_pos,
                                       fish_collected>>)]

\* max(p.fish_count for p in self.players)
max_fish(g) ==
    CHOOSE m \in {g.players[p].fish_count : p \in DOMAIN g.players} :
        \A p \in DOMAIN g.players : g.players[p].fish_count <= m

\* [p for p in self.players if p.fish_count == max_fish], as indices
RECURSIVE winners_from(_, _)

\* a variant that reports the first player holding the maximum only
winners_first(g, p) ==
    IF p >= NumPlayers(g) THEN <<>>
    ELSE IF g.players[p].fish_count = max_fish(g) THEN <<p>>
    ELSE winners_from(g, p + 1)

winners_from(g, p) ==
    IF p >= NumPlayers(g) THEN <<>>
    ELSE (IF g.players[p].fish_count = max_fish(g) THEN <<p>> ELSE <<>>)
         \o winners_from(g, p + 1)

\* FishGame._end_game
end_game(g) ==
    [g EXCEPT !.game_state = GAME_OVER, !.winners = winners_from(g, 0)]

\* the while loop of _next_turn
RECURSIVE next_turn_loop(_, _)
next_turn_loop(g, attempts) ==
    IF attempts < NumPlayers(g)
    THEN LET g1 == [g EXCEPT !.current_player_index =
                                 (@ + 1) % NumPlayers(g)]
         IN  IF can_move(g1, g1.current_player_index)
             THEN [g1 EXCEPT !.ai_move_timer = 0]
             ELSE next_turn_loop(g1, attempts + 1)
    ELSE end_game(g)

\* FishGame._next_turn
next_turn(g) == next_turn_loop(g, 0)

\* _complete_move after _move_penguin, unless it raised
turn_after_move(g) == IF g.crashed THEN g ELSE next_turn(g)

\* a variant that also takes the tile under the destination
complete_move_clearing(g, from_pos, to_pos, player_index) ==
    turn_after_move([move_penguin(g, from_pos, to_pos) EXCEPT
                        !.tiles = DictDel(@, to_pos)])

\* FishGame._complete_move
complete_move(g, from_pos, to_pos, player_index) ==
    turn_after_move(move_penguin(g, from_pos, to_pos))

\* FishGame._start_animation
start_animation(g, from_pos, to_pos) ==
    IF from_pos \notin DOMAIN g.penguin_positions
    THEN raise(g)   \* self.penguin_positions[from_pos]: KeyError
    ELSE
    LET player_index == g.penguin_positions[from_pos]
    IN  IF g.current_animation = None
        THEN [g EXCEPT !.current_animation =
                           <<from_pos, to_pos, 0, player_index>>]
        ELSE [g EXCEPT !.animation_queue =
                           Append(@, <<from_pos, to_pos, player_index>>)]

----------------------------------------------------------------------------
(* Placement and the mouse handler.                                        *)

\* sum(len(p.penguins) for p in self.players)
RECURSIVE total_penguins_from(_, _)
total_penguins_from(g, p) ==
    IF p >= NumPlayers(g) THEN 0
    ELSE Len(g.players[p].penguins) + total_penguins_from(g, p + 1)

total_penguins(g) == total_penguins_from(g, 0)

\* a variant that expects one penguin less
expected_penguins_short(g) ==
    NumPlayers(g) * (PenguinBase - NumPlayers(g)) - 1

\* len(self.players) * (6 - len(self.players))
expected_penguins(g) == NumPlayers(g) * (PenguinBase - NumPlayers(g))

\* FishGame._place_penguin_at
place_penguin_at(g, pos) ==
    LET g1 == [g EXCEPT
                 !.penguin_positions =
                     DictSet(@, pos, g.current_player_index),
                 !.players[g.current_player_index].penguins =
                     Append(@, pos),
                 !.current_player_index = (@ + 1) % NumPlayers(g)]
    IN  IF total_penguins(g1) >= expected_penguins(g1)
        THEN [g1 EXCEPT !.game_state = PLAYING,
                        !.current_player_index = 0,
                        !.ai_move_timer = 0]
        ELSE g1

\* a variant that does not look for a penguin on the tile
handle_penguin_placement_over(g, pos) ==
    IF pos \notin DOMAIN g.tiles THEN g ELSE place_penguin_at(g, pos)

\* FishGame._handle_penguin_placement
handle_penguin_placement(g, pos) ==
    IF pos \notin DOMAIN g.tiles THEN g
    ELSE IF pos \in DOMAIN g.penguin_positions THEN g
    ELSE place_penguin_at(g, pos)

\* _handle_gameplay_click after _start_animation, unless it raised
clear_selection(g) ==
    IF g.crashed THEN g
    ELSE [g EXCEPT !.selected_penguin = None, !.valid_moves = <<>>]

\* FishGame._handle_gameplay_click
handle_gameplay_click(g, pos) ==
    IF pos \in DOMAIN g.penguin_positions
    THEN IF g.penguin_positions[pos] = g.current_player_index
         THEN [g EXCEPT !.selected_penguin = pos,
                        !.valid_moves =
                            get_valid_moves(g.tiles, g.penguin_positions,
                                            pos)]
         ELSE g
    ELSE IF g.selected_penguin # None /\ InList(pos, g.valid_moves)
    THEN clear_selection(start_animation(g, g.selected_penguin, pos))
    ELSE g

\* FishGame.on_mouse_press, the click already converted by pixel_to_hex
on_mouse_press(g, pos) ==
    IF g.players[g.current_player_index].is_ai THEN g
    ELSE IF g.game_state = PLACING_PENGUINS
    THEN handle_penguin_placement(g, pos)
    ELSE IF g.game_state = PLAYING
    THEN handle_gameplay_click(g, pos)
    ELSE g

----------------------------------------------------------------------------
(* The minimax search.  The search mutates the game object in place; its   *)
(* operators return the game object together with the value computed.      *)
(* Scores are floats in the source; here they are exact, scaled by 60 (the *)
(* common denominator of 0.5, 0.3 and the opponent counts 1, 2, 3).        *)

Max(a, b) == IF a >= b THEN a ELSE b
Min(a, b) == IF a <= b THEN a ELSE b

\* sum over a penguin list of len(self._get_valid_moves(*penguin_pos))
RECURSIVE mobility_of(_, _, _)
mobility_of(g, p, i) ==
    IF i > Len(g.players[p].penguins) THEN 0
    ELSE Len(get_valid_moves(g.tiles, g.penguin_positions,
                             g.players[p].penguins[i]))
         + mobility_of(g, p, i + 1)

\* the sums of _evaluate_board over "i != self.current_player_index"
RECURSIVE opponent_fish_total(_, _)
opponent_fish_total(g, p) ==
    IF p >= NumPlayers(g) THEN 0
    ELSE (IF p # g.current_player_index
          THEN g.players[p].fish_count ELSE 0)
         + opponent_fish_total(g, p + 1)

RECURSIVE opponent_mobility(_, _)
opponent_mobility(g, p) ==
    IF p >= NumPlayers(g) THEN 0
    ELSE (IF p # g.current_player_index THEN mobility_of(g, p, 1) ELSE 0)
         + opponent_mobility(g, p + 1)

\* FishGame._evaluate_board, times 60
evaluate_board(g) ==
    LET opponent_count == NumPlayers(g) - 1
        own == 60 * g.players[g.current_player_index].fish_count
               + 30 * mobility_of(g, g.current_player_index, 1)
    IN  IF opponent_count > 0
        THEN own - (60 * opponent_fish_total(g, 0)) \div opponent_count
                 - (18 * opponent_mobility(g, 0)) \div opponent_count
        ELSE own

\* FishGame._make_temp_move: the game object and the fish count returned
make_temp_move(g, from_pos, to_pos) ==
    IF from_pos \notin DOMAIN g.penguin_positions
    THEN [g |-> raise(g), fish |-> 0]   \* KeyError
    ELSE
    LET player_index == g.penguin_positions[from_pos]
        removed == remove_tile(g.tiles, from_pos)
        g1 == [g EXCEPT
                 !.penguin_positions =
                     DictSet(DictDel(g.penguin_positions, from_pos),
                             to_pos, player_index),
                 !.tiles = removed.tiles,
                 !.players[player_index].fish_count = @ + removed.fish]
    IN  IF ~InList(from_pos, g.players[player_index].penguins)
        THEN [g |-> raise(g1), fish |-> removed.fish]   \* ValueError
        ELSE [g |-> [g1 EXCEPT !.players[player_index].penguins =
                                   Append(ListRemove(@, from_pos), to_pos)],
              fish |-> removed.fish]

\* a variant that puts a one-fish tile back whatever was collected
undo_with_one_fish(g, from_pos, to_pos, fish_collected) ==
    IF to_pos \notin DOMAIN g.penguin_positions
    THEN raise(g)
    ELSE [g EXCEPT
            !.penguin_positions =
                DictSet(DictDel(g.penguin_positions, to_pos), from_pos,
                        g.penguin_positions[to_pos]),
            !.tiles = DictSet(g.tiles, from_pos, 1),
            !.players[g.penguin_positions[to_pos]].fish_count =
                @ - fish_collected,
            !.players[g.penguin_positions[to_pos]].penguins =
                Append(ListRemove(@, to_pos), from_pos)]

\* FishGame._undo_temp_move
undo_temp_move(g, from_pos, to_pos, fish_collected) ==
    IF to_pos \notin DOMAIN g.penguin_positions
    THEN raise(g)   \* KeyError
    ELSE
    LET player_index == g.penguin_positions[to_pos]
        g1 == [g EXCEPT
                 !.penguin_positions =
                     DictSet(DictDel(g.penguin_positions, to_pos),
                             from_pos, player_index),
                 !.tiles = DictSet(g.tiles, from_pos, fish_collected),
                 !.players[player_index].fish_count = @ - fish_collected]
    IN  IF ~InList(to_pos, g.players[player_index].penguins)
        THEN raise(g1)   \* ValueError
        ELSE [g1 EXCEPT !.players[player_index].penguins =
                            Append(ListRemove(@, to_pos), from_pos)]

\* history of the search: a move was made at a node that maximizes (the
\* loop of _ai_make_move, the maximizing_player branch of _minimax) or
\* minimizes, and the token now on to_pos is the one moved
record_ply(g, maximizing_player, to_pos) ==
    [g EXCEPT !.plies = @ \cup {<<maximizing_player,
                                   g.penguin_positions[to_pos]>>}]

\* history of the search: the loop of _ai_make_move makes and scores the
\* move from penguin_pos to move_pos
record_root(g, penguin_pos, move_pos) ==
    [g EXCEPT !.evaluated = @ \cup {<<penguin_pos, move_pos>>}]

RECURSIVE minimax(_, _, _, _, _)
RECURSIVE minimax_moves(_, _, _, _, _, _, _, _, _)
RECURSIVE minimax_penguins(_, _, _, _, _, _, _, _)
RECURSIVE minimax_made(_, _, _, _, _, _, _, _, _)
RECURSIVE minimax_searched(_, _, _, _, _, _, _, _, _, _)
RECURSIVE minimax_undone(_, _, _, _, _, _, _, _, _, _)
RECURSIVE minimax_next_penguin(_, _, _, _, _)

\* what the loops of _minimax hand on: the game object, alpha, beta and
\* max_eval / min_eval
LoopState(g, alpha, beta, eval) ==
    [g |-> g, alpha |-> alpha, beta |-> beta, val |-> eval]

\* the inner loop "for move_pos in valid_moves" of _minimax, from index j
minimax_moves(g, depth, alpha, beta, maximizing_player, penguin_pos, moves, j, eval) ==
    IF j > Len(moves)
    THEN LoopState(g, alpha, beta, eval)
    ELSE minimax_made(make_temp_move(g, penguin_pos, moves[j]), depth,
                      alpha, beta, maximizing_player, penguin_pos, moves, j,
                      eval)

\* ... after _make_temp_move: switch to the next player and recurse
minimax_made(made, depth, alpha, beta, maximizing_player, penguin_pos, moves, j, eval) ==
    IF made.g.crashed
    THEN LoopState(made.g, alpha, beta, eval)
    ELSE minimax_searched(
             minimax([record_ply(made.g, maximizing_player, moves[j])
                          EXCEPT !.current_player_index =
                                     (@ + 1) % NumPlayers(made.g)],
                     depth - 1, alpha, beta, ~maximizing_player),
             made.fish, depth, alpha, beta, maximizing_player, penguin_pos,
             moves, j, eval)

\* ... after the recursive call: switch back and undo the move
minimax_searched(sub, fish_collected, depth, alpha, beta, maximizing_player, penguin_pos, moves, j, eval) ==
    IF sub.g.crashed
    THEN LoopState(sub.g, alpha, beta, eval)
    ELSE minimax_undone(
             undo_temp_move(
                 [sub.g EXCEPT !.current_player_index =
                                   (@ - 1) % NumPlayers(sub.g)],
                 penguin_pos, moves[j], fish_collected),
             sub.val, depth, alpha, beta, maximizing_player, penguin_pos,
             moves, j, eval)

\* ... after _undo_temp_move: update max_eval / min_eval and alpha / beta,
\* and break out of the inner loop when beta <= alpha
minimax_undone(g, eval_score, depth, alpha, beta, maximizing_player, penguin_pos, moves, j, eval) ==
    LET eval1 == IF maximizing_player THEN Max(eval, eval_score)
                 ELSE Min(eval, eval_score)
        alpha1 == IF maximizing_player THEN Max(alpha, eval_score)
                  ELSE alpha
        beta1 == IF maximizing_player THEN beta ELSE Min(beta, eval_score)
    IN  IF g.crashed \/ beta1 <= alpha1
        THEN LoopState(g, alpha1, beta1, eval1)
        ELSE minimax_moves(g, depth, alpha1, beta1, maximizing_player,
                           penguin_pos, moves, j + 1, eval1)

\* the outer loop "for penguin_pos in current_player.penguins" of _minimax:
\* the list is read at index i on every round, as Python's list iterator
\* does while the moves made and undone reorder it
minimax_penguins(g, p, depth, alpha, beta, maximizing_player, i, eval) ==
    IF g.crashed \/ i > Len(g.players[p].penguins)
    THEN [g |-> g, val |-> eval]
    ELSE minimax_next_penguin(
             minimax_moves(g, depth, alpha, beta, maximizing_player,
                           g.players[p].penguins[i],
                           get_valid_moves(g.tiles, g.penguin_positions,
                                           g.players[p].penguins[i]),
                           1, eval),
             p, depth, maximizing_player, i)

\* ... the next round of the outer loop
minimax_next_penguin(r, p, depth, maximizing_player, i) ==
    minimax_penguins(r.g, p, depth, r.alpha, r.beta, maximizing_player,
                     i + 1, r.val)

\* history of the search: _minimax returns r.val, from the "depth == 0 or
\* self._is_game_over()" branch (at_leaf) or from one of the loops
record_return(r, at_leaf) ==
    [g |-> [r.g EXCEPT !.returns =
                @ \cup {<<at_leaf, -Infinity < r.val /\ r.val < Infinity,
                          r.g.current_player_index>>}],
     val |-> r.val]

\* the fish on the tiles of t
RECURSIVE fish_on_tiles(_)
fish_on_tiles(t) ==
    IF DOMAIN t = {} THEN 0
    ELSE t[CHOOSE pos \in DOMAIN t : TRUE]
         + fish_on_tiles(DictDel(t, CHOOSE pos \in DOMAIN t : TRUE))

\* the fish of the players p, p + 1, ...
RECURSIVE fish_of_players(_, _)
fish_of_players(g, p) ==
    IF p >= NumPlayers(g) THEN 0
    ELSE g.players[p].fish_count + fish_of_players(g, p + 1)

\* the fish in the game: on the tiles and collected
total_fish(g) == fish_on_tiles(g.tiles) + fish_of_players(g, 0)

\* history of the search: _minimax is entered on game object g
record_node(g) == [g EXCEPT !.totals = @ \cup {total_fish(g)}]

\* FishGame._minimax: the game object afterwards and the value returned
minimax(g, depth, alpha, beta, maximizing_player) ==
    IF depth = 0 \/ is_game_over(g)
    THEN record_return([g |-> record_node(g), val |-> evaluate_board(g)],
                       TRUE)
    ELSE record_return(
             minimax_penguins(record_node(g), g.current_player_index, depth,
                              alpha, beta,
                              maximizing_player, 1,
                              IF maximizing_player THEN -Infinity
                              ELSE Infinity),
             FALSE)

RECURSIVE root_moves(_, _, _, _, _, _, _)
RECURSIVE root_penguins(_, _, _, _, _)
RECURSIVE root_made(_, _, _, _, _, _, _)
RECURSIVE root_searched(_, _, _, _, _, _, _, _)
RECURSIVE root_undone(_, _, _, _, _, _, _, _)
RECURSIVE root_next_penguin(_, _)

\* what the loops of _ai_make_move hand on
RootState(g, alpha, best_score, best_move) ==
    [g |-> g, alpha |-> alpha, best_score |-> best_score,
     best_move |-> best_move]

\* the inner loop of _ai_make_move, from index j
root_moves(g, alpha, penguin_pos, moves, j, best_score, best_move) ==
    IF j > Len(moves)
    THEN RootState(g, alpha, best_score, best_move)
    ELSE root_made(make_temp_move(g, penguin_pos, moves[j]), alpha,
                   penguin_pos, moves, j, best_score, best_move)

\* ... after _make_temp_move: evaluate the move, the player to move kept
root_made(made, alpha, penguin_pos, moves, j, best_score, best_move) ==
    IF made.g.crashed
    THEN RootState(made.g, alpha, best_score, best_move)
    ELSE root_searched(
             minimax(record_ply(record_root(made.g, penguin_pos, moves[j]),
                                TRUE, moves[j]),
                     made.g.minimax_depth - 1, alpha, Infinity, FALSE),
             made.fish, alpha, penguin_pos, moves, j, best_score, best_move)

\* ... after _minimax: undo the move
root_searched(sub, fish_collected, alpha, penguin_pos, moves, j, best_score, best_move) ==
    IF sub.g.crashed
    THEN RootState(sub.g, alpha, best_score, best_move)
    ELSE root_undone(
             undo_temp_move(sub.g, penguin_pos, moves[j], fish_collected),
             sub.val, alpha, penguin_pos, moves, j, best_score, best_move)

\* ... after _undo_temp_move: keep the first move with the highest score
root_undone(g, score, alpha, penguin_pos, moves, j, best_score, best_move) ==
    LET best_score1 == IF score > best_score THEN score ELSE best_score
        best_move1 == IF score > best_score THEN <<penguin_pos, moves[j]>>
                      ELSE best_move
    IN  IF g.crashed
        THEN RootState(g, alpha, best_score, best_move)
        ELSE root_moves(g, Max(alpha, best_score1), penguin_pos, moves,
                        j + 1, best_score1, best_move1)

\* the outer loop of _ai_make_move, from index i of the penguin list
root_penguins(g, alpha, i, best_score, best_move) ==
    IF g.crashed \/ i > Len(g.players[g.current_player_index].penguins)
    THEN RootState(g, alpha, best_score, best_move)
    ELSE root_next_penguin(
             root_moves(g, alpha,
                        g.players[g.current_player_index].penguins[i],
                        get_valid_moves(
                            g.tiles, g.penguin_positions,
                            g.players[g.current_player_index].penguins[i]),
                        1, best_score, best_move),
             i)

\* ... the next round of the outer loop
root_next_penguin(r, i) ==
    root_penguins(r.g, r.alpha, i + 1, r.best_score, r.best_move)

\* the search of _ai_make_move (lines 2048-2075): the game object when the
\* loops end, the best score and the best move (None when there is none)
search(g) == root_penguins(g, -Infinity, 1, -Infinity, None)

\* a restore that forgets "self.players = original_players"
restore_without_players(g, original) ==
    [g EXCEPT !.tiles = original.tiles,
              !.penguin_positions = original.penguin_positions,
              !.current_player_index = original.current_player_index]

\* "Restore the original game state" from the deep copies taken on entry
restore(g, original) ==
    [g EXCEPT !.tiles = original.tiles,
              !.penguin_positions = original.penguin_positions,
              !.players = original.players,
              !.current_player_index = original.current_player_index]

\* _ai_make_move after the search: start the best move or skip the turn
play_best_move(found, original) ==
    IF found.g.crashed THEN found.g
    ELSE IF found.best_move # None
    THEN start_animation(restore(found.g, original), found.best_move[1],
                         found.best_move[2])
    ELSE next_turn(restore(found.g, original))

\* FishGame._ai_make_move
ai_make_move(g) == play_best_move(search(g), g)

----------------------------------------------------------------------------
(* The computer's placement and the frame update.                          *)

\* (fish, row, col) of a > (fish, row, col) of b, the order of
\* available_tiles.sort(reverse=True)
sorts_before(t, a, b) ==
    \/ t[a] > t[b]
    \/ t[a] = t[b] /\ a[1] > b[1]
    \/ t[a] = t[b] /\ a[1] = b[1] /\ a[2] > b[2]

\* the tiles holding no penguin
available_tiles(g) == (DOMAIN g.tiles) \ (DOMAIN g.penguin_positions)

\* available_tiles[:min(3, len(available_tiles))] after the sort, as a set
top_tiles(g) ==
    {a \in available_tiles(g) :
        Cardinality({b \in available_tiles(g) :
                        sorts_before(g.tiles, b, a)}) < TopTiles}

\* FishGame._ai_place_penguin, `choice` being what random.choice returns
ai_place_penguin(g, choice) ==
    IF available_tiles(g) = {} THEN g
    ELSE place_penguin_at(g, choice)

\* on_update when the animation is complete, after _complete_move: start
\* the next animation of the queue, if any
next_animation(g) ==
    IF g.crashed THEN g
    ELSE IF g.animation_queue # <<>>
    THEN [g EXCEPT !.animation_queue = Tail(@),
                   !.current_animation =
                       <<Head(g.animation_queue)[1],
                         Head(g.animation_queue)[2], 0,
                         Head(g.animation_queue)[3]>>]
    ELSE [g EXCEPT !.current_animation = None]

\* the animation part of on_update (lines 1322-1337); progress counts the
\* frames shown, each adding animation_speed
update_animation(g) ==
    IF g.current_animation = None THEN g
    ELSE IF g.current_animation[3] + 1 >= AnimFrames
    THEN next_animation(complete_move(g, g.current_animation[1],
                                      g.current_animation[2],
                                      g.current_animation[4]))
    ELSE [g EXCEPT !.current_animation[3] = @ + 1]

\* "self.ai_move_timer = 0" after the computer has placed or moved
reset_timer(g) == IF g.crashed THEN g ELSE [g EXCEPT !.ai_move_timer = 0]

\* history of on_update: _ai_place_penguin or _ai_make_move is called while
\* current_player_index designates this player
record_call(g) ==
    [g EXCEPT !.called_for = @ \cup {g.current_player_index}]

\* the computer's turn of on_update, ai_move_timer already advanced
ai_turn(g, choice) ==
    IF g.game_state = PLACING_PENGUINS /\ g.ai_move_timer > PlaceDelay
    THEN reset_timer(ai_place_penguin(record_call(g), choice))
    ELSE IF g.game_state = PLAYING /\ g.ai_move_timer > MoveDelay
    THEN reset_timer(ai_make_move(record_call(g)))
    ELSE g

\* the "Handle AI turns" part of on_update (lines 1344-1352); current_player
\* is the player object read on entry of on_update
update_ai(g, current_player, delta_time, choice) ==
    IF g.crashed THEN g
    ELSE IF current_player.is_ai /\ g.current_animation = None
    THEN ai_turn([g EXCEPT !.ai_move_timer = @ + delta_time], choice)
    ELSE g

\* FishGame.on_update
on_update(g, delta_time, choice) ==
    update_ai(update_animation(g), g.players[g.current_player_index],
              delta_time, choice)

----------------------------------------------------------------------------
(* The state machine.                                                      *)

\* row-major index of a cell
CellIndex(pos) == pos[1] * Cols + pos[2]

\* the fish count the generator puts on a cell for seed k (1..3)
GeneratedFish(pos, k) == 1 + ((2 * CellIndex(pos) + k) % 3)

\* HexGrid._generate_tiles for seed k: some cells get no tile (2 of 12 for
\* seed 1, 4 of 12 for seed 2), the others hold 1..3 fish
GeneratedTiles(k) ==
    LET present == {pos \in Cells : (k * (CellIndex(pos) + 1)) % 6 # 0}
    IN  [pos \in present |-> GeneratedFish(pos, k)]

\* LandingPageView.on_start_game: player 0 is human, the others computers
NewPlayers(n) ==
    [p \in 0..(n - 1) |->
        [is_ai |-> p > 0, fish_count |-> 0, penguins |-> <<>>]]

\* player counts explored (LandingPageView.num_players)
PlayerCounts == {2, 3, 4}

\* FishGame.__init__ and _setup_game
Init ==
    /\ \E k \in 1..NumBoards : tiles = GeneratedTiles(k)
    /\ \E n \in PlayerCounts : players = NewPlayers(n)
    /\ penguin_positions = <<>>
    /\ current_player_index = 0
    /\ game_state = PLACING_PENGUINS
    /\ selected_penguin = None
    /\ valid_moves = <<>>
    /\ current_animation = None
    /\ animation_queue = <<>>
    /\ ai_move_timer = 0
    /\ minimax_depth = 3
    /\ move_history = <<>>
    /\ winners = <<>>
    /\ crashed = FALSE

\* the handlers run while FishGame is the window's view and the process
\* lives: _end_game shows GameOverView
Running == ~crashed /\ game_state # GAME_OVER

Become(g) ==
    /\ tiles' = g.tiles
    /\ penguin_positions' = g.penguin_positions
    /\ players' = g.players
    /\ current_player_index' = g.current_player_index
    /\ game_state' = g.game_state
    /\ selected_penguin' = g.selected_penguin
    /\ valid_moves' = g.valid_moves
    /\ current_animation' = g.current_animation
    /\ animation_queue' = g.animation_queue
    /\ ai_move_timer' = g.ai_move_timer
    /\ minimax_depth' = g.minimax_depth
    /\ move_history' = g.move_history
    /\ winners' = g.winners
    /\ crashed' = g.crashed

\* the cells a click can land on: the board and one point off the board
ClickCells == Cells \cup {<<Rows, Cols>>}

\* the clicks explored: while placing, the first PlaceChoices free tiles in
\* row-major order and every cell that is no free tile; any cell afterwards
Clicks ==
    IF game_state = PLACING_PENGUINS
    THEN {pos \in ClickCells :
             pos \in available_tiles(Self) =>
                 Cardinality({b \in available_tiles(Self) :
                                 CellIndex(b) < CellIndex(pos)})
                     < PlaceChoices}
    ELSE ClickCells

\* the clicks explored leave at most MaxQueue moves waiting
Accept(g) == Len(g.animation_queue) <= MaxQueue /\ Become(g)

\* a mouse click on the game view
OnMousePress ==
    /\ Running
    /\ \E pos \in Clicks : Accept(on_mouse_press(Self, pos))

\* one frame of the game view
OnUpdate ==
    /\ Running
    /\ \E delta_time \in DeltaTimes :
       \E choice \in (IF top_tiles(Self) = {} THEN {None}
                      ELSE top_tiles(Self)) :
          Become(on_update(Self, delta_time, choice))

Next == OnMousePress \/ OnUpdate

Spec == Init /\ [][Next]_vars

\* the human selects a penguin that has a destination
HumanSelect ==
    OnMousePress /\ selected_penguin' # None /\ valid_moves' # <<>>

\* the human clicks a destination of the selected penguin: the move starts
\* its animation or joins the queue
HumanMove ==
    /\ OnMousePress
    /\ \/ current_animation' # current_animation
       \/ animation_queue' # animation_queue

\* the frames keep coming, and a human who can again and again select a
\* penguin with a destination, or click a destination, eventually does
FairSpec ==
    /\ Spec
    /\ WF_vars(OnUpdate)
    /\ SF_vars(HumanSelect)
    /\ SF_vars(HumanMove)

----------------------------------------------------------------------------
(* A second state machine for the move generator: it starts in any playing *)
(* position of two players (eight penguins on tiles, any of the other      *)
(* cells a hole) and lets the human click on penguins, which runs          *)
(* _get_valid_moves.                                                       *)

\* the penguins of player p when the cells of S are taken in turn, in
\* row-major order, by the players 0, 1, 0, 1, ...
RECURSIVE PlacedFrom(_, _, _, _)
PlacedFrom(S, n, p, turn) ==
    IF S = {} THEN <<>>
    ELSE LET first == CHOOSE c \in S :
                          \A d \in S : CellIndex(c) <= CellIndex(d)
         IN  (IF turn % n = p THEN <<first>> ELSE <<>>)
             \o PlacedFrom(S \ {first}, n, p, turn + 1)

PositionsOf(S, n) ==
    [c \in S |-> CHOOSE p \in 0..(n - 1) :
                     InList(c, PlacedFrom(S, n, p, 0))]

BoardInit ==
    /\ \E S \in SUBSET Cells :
       \E F \in SUBSET (Cells \ S) :
          /\ Cardinality(S) = 2 * (PenguinBase - 2)
          /\ tiles = [pos \in S \cup F |-> GeneratedFish(pos, 1)]
          /\ penguin_positions = PositionsOf(S, 2)
          /\ players = [p \in 0..1 |->
                           [is_ai |-> p > 0, fish_count |-> 0,
                            penguins |-> PlacedFrom(S, 2, p, 0)]]
    /\ current_player_index = 0
    /\ game_state = PLAYING
    /\ selected_penguin = None
    /\ valid_moves = <<>>
    /\ current_animation = None
    /\ animation_queue = <<>>
    /\ ai_move_timer = 0
    /\ minimax_depth = 3
    /\ move_history = <<>>
    /\ winners = <<>>
    /\ crashed = FALSE

\* a click on a penguin
SelectPenguin ==
    /\ Running
    /\ \E pos \in DOMAIN penguin_positions :
          Become(on_mouse_press(Self, pos))

BoardSpec == BoardInit /\ [][SelectPenguin]_vars

----------------------------------------------------------------------------------------------------------------------------------------
(* A third state machine for the search: it starts in any playing position *)
(* of two or three players in which a computer player is to move (every    *)
(* player's penguins on tiles among the first SearchCells cells, any of    *)
(* the other cells a hole), with any search depth of the settings, and     *)
(* lets the computer's timer fire.                                         *)

\* player counts explored by the search positions
SearchPlayerCounts == {2, 3}

\* the cells the penguins of a search position may stand on
SearchTokenCells == {pos \in Cells : CellIndex(pos) < SearchCells}

SearchInit ==
    /\ \E n \in SearchPlayerCounts :
       \E S \in SUBSET SearchTokenCells :
       \E F \in SUBSET (Cells \ S) :
          /\ Cardinality(S) = n * (PenguinBase - n)
          /\ tiles = [pos \in S \cup F |-> GeneratedFish(pos, 1)]
          /\ penguin_positions = PositionsOf(S, n)
          /\ players = [p \in 0..(n - 1) |->
                           [is_ai |-> p > 0, fish_count |-> 0,
                            penguins |-> PlacedFrom(S, n, p, 0)]]
          /\ current_player_index \in 1..(n - 1)
    /\ game_state = PLAYING
    /\ selected_penguin = None
    /\ valid_moves = <<>>
    /\ current_animation = None
    /\ animation_queue = <<>>
    /\ ai_move_timer = 0
    /\ minimax_depth \in 1..MaxDepth
    /\ move_history = <<>>
    /\ winners = <<>>
    /\ crashed = FALSE

\* the computer is to move and no animation runs
ComputerToMove ==
    /\ Running
    /\ game_state = PLAYING
    /\ players[current_player_index].is_ai
    /\ current_animation = None

\* the frame in which the computer's timer fires: _ai_make_move runs
AiMakeMove == ComputerToMove /\ Become(reset_timer(ai_make_move(Self)))

SearchSpec == SearchInit /\ [][AiMakeMove]_vars

----------------------------------------------------------------------------
(* The sliding rule, stated on its own: the offset of each direction label *)
(* in even and in odd columns, and the cells a token can slide to.         *)

EvenOffsets ==
    [E |-> <<0, 1>>, NE |-> <<-1, 1>>, NW |-> <<-1, 0>>,
     W |-> <<0, -1>>, SW |-> <<1, 0>>, SE |-> <<1, 1>>]

OddOffsets ==
    [E |-> <<0, 1>>, NE |-> <<-1, 0>>, NW |-> <<-1, -1>>,
     W |-> <<0, -1>>, SW |-> <<1, -1>>, SE |-> <<1, 0>>]

DirectionLabels == {"E", "NE", "NW", "W", "SW", "SE"}

LabelStep(pos, d) ==
    LET o == IF pos[2] % 2 = 0 THEN EvenOffsets[d] ELSE OddOffsets[d]
    IN  <<pos[1] + o[1], pos[2] + o[2]>>

\* the cell n steps from pos along direction label d
RECURSIVE LabelWalk(_, _, _)
LabelWalk(pos, d, n) ==
    IF n = 0 THEN pos ELSE LabelStep(LabelWalk(pos, d, n - 1), d)

\* a cell with a tile and no token
Free(c) == c \in DOMAIN tiles /\ c \notin DOMAIN penguin_positions

\* the free cells met from cell c on along label d, up to the first cell
\* that is not free
RECURSIVE Slide(_, _)
Slide(c, d) ==
    IF Free(c) THEN {c} \cup Slide(LabelStep(c, d), d) ELSE {}

\* the cells reached from start along one label over free cells only
Reachable(start) ==
    UNION {Slide(LabelStep(start, d), d) : d \in DirectionLabels}

\* the elements of a list
Elements(list) == {list[i] : i \in 1..Len(list)}

\* the coordinates holding a token of player p
TokensOf(p) ==
    {c \in DOMAIN penguin_positions : penguin_positions[c] = p}

\* player p has a legal move
HasLegalMove(p) == \E c \in TokensOf(p) : Reachable(c) # {}

\* the step applies the move of the animation shown (_complete_move ran
\* _move_penguin to its end) and the process lives on
MoveApplied ==
    /\ current_animation # None
    /\ move_history' # move_history
    /\ ~crashed'

\* the move of the animation shown
AppliedFrom == current_animation[1]
AppliedTo == current_animation[2]

\* the step is the frame that ends the animation shown
AnimationEnds ==
    /\ Running
    /\ current_animation # None
    /\ current_animation[3] + 1 >= AnimFrames
    /\ current_animation' # current_animation \/ crashed'

\* the move of the animation shown is legal now
AppliedMoveIsLegal ==
    /\ AppliedFrom \in DOMAIN penguin_positions
    /\ AppliedTo \in Reachable(AppliedFrom)

\* the number of entries of list equal to x
RECURSIVE Count(_, _)
Count(x, list) ==
    IF list = <<>> THEN 0
    ELSE (IF Head(list) = x THEN 1 ELSE 0) + Count(x, Tail(list))

\* the number of penguins placed
TotalPlaced == total_penguins(Self)

\* the number of penguins each player places
Quota == PenguinBase - Cardinality(DOMAIN players)

----------------------------------------------------------------------------
(* Claims.                                                                 *)

\* C1: every coordinate returned by _get_valid_moves(start), for every
\* token position start, has a tile, holds no token and differs from start;
\* so do the destinations stored for the selected penguin.
C1_DestinationsAreFree ==
    /\ \A start \in DOMAIN penguin_positions :
       \A c \in Elements(get_valid_moves(tiles, penguin_positions, start)) :
           c \in DOMAIN tiles /\ c \notin DOMAIN penguin_positions
           /\ c # start
    /\ selected_penguin # None =>
           \A c \in Elements(valid_moves) :
               c \in DOMAIN tiles /\ c \notin DOMAIN penguin_positions
               /\ c # selected_penguin

\* a penguin is selected, has two destinations or more, and a neighbouring
\* cell of it holds a token
C1_Witness ==
    /\ selected_penguin # None
    /\ Len(valid_moves) >= 2
    /\ \E d \in DirectionLabels :
           LabelStep(selected_penguin, d) \in DOMAIN penguin_positions

\* C2: _get_valid_moves(start) returns exactly the cells reached by walking
\* each direction label step by step over cells that have a tile and no
\* token: nothing beyond a hole or a token, nothing before it left out.
C2_ExactlyTheSlides ==
    /\ \A start \in DOMAIN penguin_positions :
           Elements(get_valid_moves(tiles, penguin_positions, start))
               = Reachable(start)
    /\ selected_penguin # None =>
           Elements(valid_moves) = Reachable(selected_penguin)

\* the selected penguin slides two cells along one label, and along
\* another label a free cell lies right behind a blocked one
C2_Witness ==
    /\ selected_penguin # None
    /\ \E d \in DirectionLabels :
           /\ Free(LabelWalk(selected_penguin, d, 1))
           /\ Free(LabelWalk(selected_penguin, d, 2))
           /\ LabelWalk(selected_penguin, d, 2) \in Elements(valid_moves)
    /\ \E d \in DirectionLabels :
           /\ ~Free(LabelWalk(selected_penguin, d, 1))
           /\ Free(LabelWalk(selected_penguin, d, 2))

C3_MoveCollectsTheTile ==
    [][MoveApplied /\ AppliedFrom \in DOMAIN tiles =>
          /\ players'[penguin_positions[AppliedFrom]].fish_count
                 = players[penguin_positions[AppliedFrom]].fish_count
                   + tiles[AppliedFrom]
          /\ AppliedFrom \notin DOMAIN tiles'
          /\ AppliedFrom \notin DOMAIN penguin_positions'
          /\ AppliedTo \in DOMAIN penguin_positions'
          /\ penguin_positions'[AppliedTo] = penguin_positions[AppliedFrom]
      ]_vars

\* the last move applied was the first of its player and worth 3 fish: the
\* player's score is 3, the start is no tile, the token is at the
\* destination
C3_Witness ==
    /\ move_history # <<>>
    /\ move_history[Len(move_history)][4] = 3
    /\ players[move_history[Len(move_history)][1]].fish_count = 3
    /\ move_history[Len(move_history)][2] \notin DOMAIN tiles
    /\ move_history[Len(move_history)][3] \in DOMAIN penguin_positions
    /\ penguin_positions[move_history[Len(move_history)][3]]
           = move_history[Len(move_history)][1]

\* C4: when _move_penguin applies a move, every tile other than the one at
\* the start stays (presence and fish), no tile appears, every token on a
\* cell other than the start keeps its cell and owner, no token appears
\* but at the destination, and every other player keeps fish_count and
\* penguin list.
C4_MoveFrame ==
    [][MoveApplied =>
          /\ DOMAIN tiles' = DOMAIN tiles \ {AppliedFrom}
          /\ \A c \in DOMAIN tiles' : tiles'[c] = tiles[c]
          /\ DOMAIN penguin_positions'
                 = (DOMAIN penguin_positions \ {AppliedFrom})
                   \cup {AppliedTo}
          /\ \A c \in DOMAIN penguin_positions \ {AppliedFrom} :
                 penguin_positions'[c] = penguin_positions[c]
          /\ \A p \in DOMAIN players \ {penguin_positions[AppliedFrom]} :
                 /\ players'[p].fish_count = players[p].fish_count
                 /\ players'[p].penguins = players[p].penguins
          /\ \A c \in Cells \ {AppliedFrom, AppliedTo} :
                 Count(c, players'[penguin_positions[AppliedFrom]].penguins)
                   = Count(c, players[penguin_positions[AppliedFrom]].penguins)
      ]_vars

\* two moves or more were applied, the last two by different players, both
\* players have fish, and a tile and a token that took no part in the last
\* move are on the board
C4_Witness ==
    /\ Len(move_history) >= 2
    /\ move_history[Len(move_history)][1]
           # move_history[Len(move_history) - 1][1]
    /\ \A p \in DOMAIN players : players[p].fish_count > 0
    /\ \E c \in DOMAIN tiles : c # move_history[Len(move_history)][3]
    /\ \E c \in DOMAIN penguin_positions :
           c # move_history[Len(move_history)][3]

\* C5: in every reachable state no coordinate appears more than once
\* across all players' penguin lists, neither twice in one list nor in the
\* lists of two players.
C5_NoCoordinateTwice ==
    \A p \in DOMAIN players : \A q \in DOMAIN players :
    \A i \in 1..Len(players[p].penguins) :
    \A j \in 1..Len(players[q].penguins) :
        (p # q \/ i # j) => players[p].penguins[i] # players[q].penguins[j]

\* C6: every frame that ends an animation finds a token on the start and
\* the destination among the legal destinations of the start, and applies
\* the move; a move that is not legal then is rejected, leaving tiles,
\* token positions, players and the player to move unchanged.
C6_OnlyLegalMovesApplied ==
    [][AnimationEnds =>
          IF AppliedMoveIsLegal
          THEN MoveApplied
          ELSE /\ ~crashed'
               /\ UNCHANGED <<tiles, penguin_positions, players,
                              current_player_index>>
      ]_vars

\* C7: each move applied moves a token owned by the player to move at that
\* moment, and the turn is advanced before another move is applied: the
\* player to move changes unless no other player has a legal move.
C7_MoverIsPlayerToMove ==
    [][MoveApplied =>
          /\ penguin_positions[AppliedFrom] = current_player_index
          /\ \/ current_player_index' # current_player_index
             \/ \A p \in DOMAIN players \ {current_player_index} :
                    ~HasLegalMove(p)'
      ]_vars

\* C9: after a move is applied and _next_turn has run, if some player has
\* a legal move the phase is Playing and the player to move is the first
\* player after the mover, in cyclic order with the mover last, who has a
\* legal move; otherwise the phase is GAME_OVER.  The phase is never
\* GAME_OVER while some player has a legal move.
C9_TurnGoesToNextMover ==
    [][/\ MoveApplied =>
            \E mover \in DOMAIN players :
            \E n \in {Cardinality(DOMAIN players)} :
               /\ mover = penguin_positions[AppliedFrom]
               /\ IF \E p \in DOMAIN players : HasLegalMove(p)'
                  THEN /\ game_state' = PLAYING
                       /\ \E k \in 1..n :
                             /\ current_player_index' = (mover + k) % n
                             /\ HasLegalMove((mover + k) % n)'
                             /\ \A j \in 1..(k - 1) :
                                    ~HasLegalMove((mover + j) % n)'
                  ELSE game_state' = GAME_OVER
       /\ game_state' = GAME_OVER =>
              \A p \in DOMAIN players : ~HasLegalMove(p)'
      ]_vars

\* C10: every game that enters the Playing phase eventually reaches
\* GAME_OVER, the frames coming and the human eventually moving when able
\* to (a game whose process died is not held against the claim).
C10_PlayingLeadsToGameOver ==
    (game_state = PLAYING) ~> (game_state = GAME_OVER \/ crashed)

\* C11: when the game has ended, the winners reported by _end_game are
\* exactly the players whose fish_count is the maximum over all players,
\* each once; players sharing the maximum are all reported.
C11_WinnersHoldTheMaximum ==
    game_state = GAME_OVER =>
        /\ Elements(winners)
               = {p \in DOMAIN players :
                     \A q \in DOMAIN players :
                         players[q].fish_count <= players[p].fish_count}
        /\ \A i \in 1..Len(winners) : \A j \in 1..Len(winners) :
               i # j => winners[i] # winners[j]

\* the game has ended with both players sharing a maximum above zero
C11_Witness ==
    /\ game_state = GAME_OVER
    /\ Len(winners) = 2
    /\ players[0].fish_count = players[1].fish_count
    /\ players[0].fish_count > 0

\* C12: while penguins are placed, a penguin is only ever put on a cell
\* that has a tile and holds no penguin, and a click of the human on a hole,
\* on a cell off the board or on an occupied tile adds no penguin and leaves
\* the player to place unchanged.
C12_PlacementOnFreeTilesOnly ==
    [][game_state = PLACING_PENGUINS =>
          /\ \A p \in DOMAIN players :
                 players'[p].penguins # players[p].penguins =>
                     /\ players'[p].penguins
                            = Append(players[p].penguins,
                                     players'[p].penguins[
                                         Len(players'[p].penguins)])
                     /\ players'[p].penguins[Len(players'[p].penguins)]
                            \in available_tiles(Self)
                     /\ p = current_player_index
          /\ DOMAIN penguin_positions' \ DOMAIN penguin_positions
                 \subseteq available_tiles(Self)
          /\ \A pos \in ClickCells \ available_tiles(Self) :
                 /\ on_mouse_press(Self, pos).penguin_positions
                        = penguin_positions
                 /\ on_mouse_press(Self, pos).players = players
                 /\ on_mouse_press(Self, pos).current_player_index
                        = current_player_index
                 /\ on_mouse_press(Self, pos).game_state = game_state
      ]_vars

\* the human has just placed a penguin, with a hole on the board and tiles
\* already occupied by both players
C12_Witness ==
    /\ game_state = PLACING_PENGUINS
    /\ current_player_index = 1
    /\ Len(players[0].penguins) = 2
    /\ Len(players[1].penguins) = 1
    /\ Cells \ DOMAIN tiles # {}
    /\ \A p \in DOMAIN players : \A i \in 1..Len(players[p].penguins) :
           /\ players[p].penguins[i] \in DOMAIN tiles
           /\ penguin_positions[players[p].penguins[i]] = p

\* C13: for 2, 3 and 4 players, a step taken while placing leads to the
\* Playing phase exactly when it brings the number of penguins placed to
\* N * (6 - N); at that moment every player holds 6 - N penguins and player
\* 0 is to move; the penguins are placed one at a time in the rotation
\* 0, 1, ..., N - 1.
C13_PlayingStartsAtTheQuota ==
    [][game_state = PLACING_PENGUINS =>
          /\ game_state' \in {PLACING_PENGUINS, PLAYING}
          /\ TotalPlaced' \in {TotalPlaced, TotalPlaced + 1}
          /\ game_state' = PLAYING
                 <=> TotalPlaced' = Cardinality(DOMAIN players) * Quota
          /\ game_state' = PLAYING =>
                 /\ TotalPlaced = Cardinality(DOMAIN players) * Quota - 1
                 /\ current_player_index' = 0
                 /\ \A p \in DOMAIN players :
                        Len(players'[p].penguins) = Quota
          /\ \A p \in DOMAIN players :
                 Len(players'[p].penguins) # Len(players[p].penguins) =>
                     /\ p = TotalPlaced % Cardinality(DOMAIN players)
                     /\ p = current_player_index
      ]_vars

\* three players have just placed their nine penguins
C13_Witness ==
    /\ Cardinality(DOMAIN players) = 3
    /\ game_state = PLAYING
    /\ move_history = <<>>
    /\ current_animation = None
    /\ current_player_index = 0
    /\ TotalPlaced = 9
    /\ \A p \in DOMAIN players : Len(players[p].penguins) = 3

\* C14: when the computer is to move, _ai_make_move selects no move
\* (best_move is None, the turn is passed) exactly when the player to move
\* has no legal move, at every search depth from 1 to 5.
C14_NoMoveIffNoLegalMove ==
    ComputerToMove =>
        (search(Self).best_move = None
             <=> ~HasLegalMove(current_player_index))

\* the live position of two game objects is the same: tiles with their fish,
\* token positions and owners, the players' records, the player to move
SameLivePosition(a, b) ==
    /\ a.tiles = b.tiles
    /\ a.penguin_positions = b.penguin_positions
    /\ \A p \in DOMAIN b.players :
           /\ a.players[p].fish_count = b.players[p].fish_count
           /\ a.players[p].penguins = b.players[p].penguins
    /\ DOMAIN a.players = DOMAIN b.players
    /\ a.current_player_index = b.current_player_index

\* C15: when the search of _ai_make_move has finished and the saved copies
\* are back in place (before the move is started or the turn is passed), the
\* tiles and their fish, the token positions and owners, every player's
\* fish_count and penguin list and the player to move are those of the entry.
C15_SearchLeavesLivePosition ==
    ComputerToMove => SameLivePosition(restore(search(Self).g, Self), Self)

\* the search found a move and left the penguin lists in another order
C15_Witness ==
    /\ ComputerToMove
    /\ search(Self).best_move # None
    /\ search(Self).g.players # players

\* C16: HexGrid.remove_tile on a coordinate that has no tile fails
\* (InvalidRemoval) instead of returning a fish value, and leaves the board
\* as it was.
C16_MissingTileIsAnError ==
    \A pos \in Cells \ DOMAIN tiles :
        /\ remove_tile(tiles, pos).raised
        /\ remove_tile(tiles, pos).tiles = tiles

\* C17: in live play the tiles change only by losing the origin tile of an
\* applied move, the other tiles keeping their fish; a coordinate without a
\* tile (so every origin of an earlier move) has no tile after the step, and
\* whenever the step changes the tiles or the tokens, every legal destination
\* of every token is a coordinate that still has its tile.
C17_TilesOnlyLeaveAtTheOrigin ==
    [][/\ \/ tiles' = tiles
          \/ /\ MoveApplied
             /\ AppliedFrom \in DOMAIN tiles
             /\ tiles' = DictDel(tiles, AppliedFrom)
       /\ \A c \in Cells \ DOMAIN tiles : c \notin DOMAIN tiles'
       /\ (tiles' # tiles \/ penguin_positions' # penguin_positions) =>
              \A p \in DOMAIN penguin_positions' :
                  \A c \in Elements(get_valid_moves(tiles',
                                                    penguin_positions', p)) :
                      c \in DOMAIN tiles'
      ]_vars

\* a move was applied, its origin is a hole, and a token stands next to it
C17_Witness ==
    /\ move_history # <<>>
    /\ move_history[1][2] \notin DOMAIN tiles
    /\ \E p \in DOMAIN penguin_positions : \E d \in DirectionLabels :
           LabelStep(p, d) = move_history[1][2]

C19_PliesAlternate ==
    ComputerToMove =>
        \A ply \in search(Self).g.plies :
            ply[1] <=> (ply[2] = current_player_index)

\* C20: every value _minimax returns during the search of _ai_make_move is
\* finite: the static evaluation at a node where the depth is 0 or nobody
\* can move, the maximum or minimum over at least one child elsewhere, and
\* never plus or minus infinity.
C20_ValuesAreFinite ==
    ComputerToMove =>
        \A returned \in search(Self).g.returns : returned[2]

\* C21: at every leaf of the search of _ai_make_move (depth 0 or nobody can
\* move), _evaluate_board takes as "own" the searching player, the player
\* to move when _ai_make_move was entered: the player that
\* current_player_index designates at the leaf is that player.
C21_LeavesSeenBySearcher ==
    ComputerToMove =>
        \A returned \in search(Self).g.returns :
            returned[1] => returned[3] = current_player_index

\* _make_temp_move(from, to) followed by _undo_temp_move(from, to, fish)
UndoOfMake(g, from_pos, to_pos) ==
    undo_temp_move(make_temp_move(g, from_pos, to_pos).g, from_pos, to_pos,
                   make_temp_move(g, from_pos, to_pos).fish)

\* game object a has the tiles, the token positions, the fish counts and
\* the sets of token coordinates of game object b
RestoredPosition(a, b) ==
    /\ ~a.crashed
    /\ a.tiles = b.tiles
    /\ a.penguin_positions = b.penguin_positions
    /\ \A p \in DOMAIN b.players :
           /\ a.players[p].fish_count = b.players[p].fish_count
           /\ Elements(a.players[p].penguins)
                  = Elements(b.players[p].penguins)

\* C22: for every state and every legal move, _make_temp_move followed by
\* _undo_temp_move restores the tile at `from` with its previous fish value,
\* the token-position map, every player's fish_count and every player's set
\* of token coordinates, and neither call raises (states in which an
\* exception has already ended the game are left out).
C22_UndoRestoresTheMove ==
    ~crashed =>
        \A from_pos \in DOMAIN penguin_positions :
            \A to_pos \in Elements(get_valid_moves(tiles, penguin_positions,
                                                   from_pos)) :
                RestoredPosition(UndoOfMake(Self, from_pos, to_pos), Self)

\* in play, a token on a three-fish tile has a legal move, and making and
\* undoing it leaves its owner's penguin list in another order
C22_Witness ==
    /\ game_state = PLAYING
    /\ \E from_pos \in DOMAIN penguin_positions :
           /\ tiles[from_pos] = 3
           /\ \E to_pos \in Elements(get_valid_moves(tiles, penguin_positions,
                                                    from_pos)) :
                  UndoOfMake(Self, from_pos, to_pos).players # players

\* C23: at the root of _ai_make_move every (token, destination) pair that
\* is legal for the player to move on entry is made and scored at least
\* once: no token that has a legal move is skipped.
C23_EveryLegalMoveIsScored ==
    ComputerToMove =>
        \A from_pos \in TokensOf(current_player_index) :
            \A to_pos \in Elements(get_valid_moves(tiles, penguin_positions,
                                                   from_pos)) :
                <<from_pos, to_pos>> \in search(Self).g.evaluated

\* C24: in every reachable state in which the phase is Playing and no
\* animation is shown or queued, the player to move has at least one legal
\* move (in particular in the first Playing state, after the last
\* placement).
C24_PlayerToMoveCanMove ==
    (/\ game_state = PLAYING
     /\ ~crashed
     /\ current_animation = None
     /\ animation_queue = <<>>) => HasLegalMove(current_player_index)

\* C25: in on_update, for every frame duration, _ai_make_move and
\* _ai_place_penguin are called only while current_player_index designates
\* a computer-controlled player, also in the frame in which an animation
\* completes and the turn passes to a human.
C25_ComputerMovesOnlyForItself ==
    Running =>
        \A delta_time \in DeltaTimes :
            \A choice \in (IF top_tiles(Self) = {} THEN {None}
                           ELSE top_tiles(Self)) :
                \A p \in on_update(Self, delta_time, choice).called_for :
                    players[p].is_ai

\* the board of seed k is the one this game was generated with
GeneratedAs(k) ==
    \A pos \in DOMAIN tiles :
        pos \in DOMAIN GeneratedTiles(k) /\ tiles[pos] = GeneratedTiles(k)[pos]

\* C26: in every state reachable in live play, and at every node the search
\* visits from it, the fish of all players plus the fish on the tiles still
\* on the board is the total fish of the board as it was generated.
C26_FishIsConserved ==
    /\ \E k \in 1..NumBoards :
           /\ GeneratedAs(k)
           /\ total_fish(Self) = fish_on_tiles(GeneratedTiles(k))
    /\ (game_state = PLAYING /\ ~crashed) =>
           \A total \in search(Self).g.totals : total = total_fish(Self)

\* a move has been applied and the search from here visits a node
C26_Witness ==
    /\ ComputerToMove
    /\ move_history # <<>>
    /\ players[0].fish_count > 0
    /\ search(Self).g.totals # {}

----------------------------------------------------------------------------
(* fish1.py: the two-player variant of the game whose computer player is   *)
(* the class MinimaxAI, an alpha-beta search over copies of the position   *)
(* (GameStateSnapshot) with a transposition table.  A Python dict is kept  *)
(* here as the sequence of its <<key, value>> entries in insertion order,  *)
(* because _get_all_moves lists the moves in the order of the dict; the    *)
(* variable penguin_positions holds such a sequence in this variant.       *)
(* Scores are floats in the source; they are kept here as integers, 120    *)
(* times the source's value (the divisors are 1..4 and the factor 0.1).    *)

\* key in d
dict_has(d, key) == \E i \in 1..Len(d) : d[i][1] = key

\* d[key]
dict_get(d, key) == d[CHOOSE i \in 1..Len(d) : d[i][1] = key][2]

\* del d[key]
dict_del(d, key) == SelectSeq(d, LAMBDA entry : entry[1] # key)

\* d[key] = value: a new key goes to the end, a known key keeps its place
dict_set(d, key, value) ==
    IF dict_has(d, key)
    THEN [i \in 1..Len(d) |-> IF d[i][1] = key THEN <<key, value>> ELSE d[i]]
    ELSE Append(d, <<key, value>>)

\* the keys of d whose value is value, in the order of d
dict_keys_of(d, value) ==
    LET kept == SelectSeq(d, LAMBDA entry : entry[2] = value)
    IN  [i \in 1..Len(kept) |-> kept[i][1]]

\* HexGrid.get_neighbors: the direction lists of even and of odd columns
EvenDirections ==
    << <<-1, 0>>, <<-1, 1>>, <<0, -1>>, <<0, 1>>, <<1, 0>>, <<1, 1>> >>

OddDirections ==
    << <<-1, -1>>, <<-1, 0>>, <<0, -1>>, <<0, 1>>, <<1, -1>>, <<1, 0>> >>

\* HexGrid.get_neighbors: the neighbours of pos that are tiles of the grid
HexGrid_get_neighbors(grid, pos) ==
    LET directions == IF pos[2] % 2 = 0 THEN EvenDirections ELSE OddDirections
        all == [i \in 1..6 |-> <<pos[1] + directions[i][1], pos[2] + directions[i][2]>>]
    IN  SelectSeq(all, LAMBDA cell : cell \in DOMAIN grid)

\* GameStateSnapshot.__init__: copies of the three containers
GameStateSnapshot(t, pp, player_scores, current_player) ==
    [tiles |-> t, penguin_positions |-> pp, player_scores |-> player_scores,
     current_player |-> current_player]

\* MinimaxAI._get_valid_moves, the while loop: the walk goes on from
\* current to the neighbour of current that lies at the offset of the
\* first step, if current has such a neighbour
RECURSIVE MinimaxAI_trace(_, _, _, _)
MinimaxAI_trace(state, grid, current, d) ==
    (IF current \in DOMAIN state.tiles THEN <<current>> ELSE <<>>)
    \o (IF \/ ~InList(<<current[1] + d[1], current[2] + d[2]>>, HexGrid_get_neighbors(grid, current))
           \/ <<current[1] + d[1], current[2] + d[2]>> \notin DOMAIN state.tiles
           \/ dict_has(state.penguin_positions, <<current[1] + d[1], current[2] + d[2]>>)
        THEN <<>>
        ELSE MinimaxAI_trace(state, grid, <<current[1] + d[1], current[2] + d[2]>>, d))

\* MinimaxAI._get_valid_moves, the loop over the neighbours from the i-th
RECURSIVE MinimaxAI_neighbors_from(_, _, _, _, _)
MinimaxAI_neighbors_from(state, grid, start_pos, neighbors, i) ==
    IF i > Len(neighbors) THEN <<>>
    ELSE (IF \/ dict_has(state.penguin_positions, neighbors[i])
             \/ neighbors[i] \notin DOMAIN state.tiles
          THEN <<>>
          ELSE MinimaxAI_trace(state, grid, neighbors[i],
                   <<neighbors[i][1] - start_pos[1], neighbors[i][2] - start_pos[2]>>))
         \o MinimaxAI_neighbors_from(state, grid, start_pos, neighbors, i + 1)

\* a variant that offers every neighbouring tile, occupied or not
valid_moves_of_neighbors(state, grid, start_pos) ==
    SelectSeq(HexGrid_get_neighbors(grid, start_pos), LAMBDA cell : cell \in DOMAIN state.tiles)

\* MinimaxAI._get_valid_moves
MinimaxAI_get_valid_moves(state, grid, start_pos) ==
    MinimaxAI_neighbors_from(state, grid, start_pos, HexGrid_get_neighbors(grid, start_pos), 1)

\* Move(from_pos, to_pos, fish_gained)
Move(from_pos, to_pos, fish_gained) ==
    [from_pos |-> from_pos, to_pos |-> to_pos, fish_gained |-> fish_gained]

\* MinimaxAI._get_all_moves, the inner loop: the moves of one penguin
MinimaxAI_moves_of(state, penguin_pos, found) ==
    [j \in 1..Len(found) |->
        Move(penguin_pos, found[j],
             IF penguin_pos \in DOMAIN state.tiles THEN state.tiles[penguin_pos] ELSE 0)]

\* MinimaxAI._get_all_moves, the loop over the player's penguins from the i-th
RECURSIVE MinimaxAI_penguins_from(_, _, _, _)
MinimaxAI_penguins_from(state, grid, player_penguins, i) ==
    IF i > Len(player_penguins) THEN <<>>
    ELSE MinimaxAI_moves_of(state, player_penguins[i],
                            MinimaxAI_get_valid_moves(state, grid, player_penguins[i]))
         \o MinimaxAI_penguins_from(state, grid, player_penguins, i + 1)

\* MinimaxAI._get_all_moves
MinimaxAI_get_all_moves(state, grid, player_index) ==
    MinimaxAI_penguins_from(state, grid, dict_keys_of(state.penguin_positions, player_index), 1)

\* _apply_move without the copy of the scores, so that the given snapshot's
\* player_scores are the list that is written
apply_move_sharing_scores(state, move, grid) ==
    LET player_index == dict_get(state.penguin_positions, move.from_pos)
        new_tiles == [pos \in DOMAIN state.tiles \ {move.from_pos} |-> state.tiles[pos]]
        new_positions == dict_set(dict_del(state.penguin_positions, move.from_pos), move.to_pos, player_index)
        new_scores == [state.player_scores EXCEPT ![player_index] = @ + move.fish_gained]
    IN  [state |-> [state EXCEPT !.player_scores = new_scores],
         new_state |-> GameStateSnapshot(new_tiles, new_positions, new_scores, (state.current_player + 1) % 2)]

\* MinimaxAI._apply_move: every write goes to a copy of a container of the
\* given snapshot; the result holds the snapshot returned (new_state) and
\* the given snapshot as the call leaves it (state)
MinimaxAI_apply_move(state, move, grid) ==
    LET player_index == dict_get(state.penguin_positions, move.from_pos)
        new_tiles == [pos \in DOMAIN state.tiles \ {move.from_pos} |-> state.tiles[pos]]
        new_positions == dict_set(dict_del(state.penguin_positions, move.from_pos), move.to_pos, player_index)
        new_scores == [state.player_scores EXCEPT ![player_index] = @ + move.fish_gained]
    IN  [state |-> state,
         new_state |-> GameStateSnapshot(new_tiles, new_positions, new_scores, (state.current_player + 1) % 2)]

\* MinimaxAI._evaluate_state, the inner loop: 12 * tile.fish / (distance + 1)
\* summed over the free tiles of cells at distance <= 3 of the penguin
RECURSIVE MinimaxAI_near_value(_, _, _)
MinimaxAI_near_value(state, penguin_pos, cells) ==
    IF cells = {} THEN 0
    ELSE LET tile_pos == CHOOSE c \in cells : TRUE
             dr == IF tile_pos[1] >= penguin_pos[1] THEN tile_pos[1] - penguin_pos[1] ELSE penguin_pos[1] - tile_pos[1]
             dc == IF tile_pos[2] >= penguin_pos[2] THEN tile_pos[2] - penguin_pos[2] ELSE penguin_pos[2] - tile_pos[2]
         IN  (IF ~dict_has(state.penguin_positions, tile_pos) /\ dr + dc <= 3
              THEN (12 * state.tiles[tile_pos]) \div (dr + dc + 1) ELSE 0)
             + MinimaxAI_near_value(state, penguin_pos, cells \ {tile_pos})

\* MinimaxAI._evaluate_state, the loop over the penguins of ai_player
RECURSIVE MinimaxAI_position_value(_, _, _)
MinimaxAI_position_value(state, ai_penguins, i) ==
    IF i > Len(ai_penguins) THEN 0
    ELSE MinimaxAI_near_value(state, ai_penguins[i], DOMAIN state.tiles)
         + MinimaxAI_position_value(state, ai_penguins, i + 1)

\* MinimaxAI._evaluate_state, times 120: the mobility terms are 0 because
\* the object has no attribute _temp_grid
MinimaxAI_evaluate_state(state, ai_player) ==
    120 * (state.player_scores[ai_player] - state.player_scores[1 - ai_player])
    + MinimaxAI_position_value(state, dict_keys_of(state.penguin_positions, ai_player), 1)

\* MinimaxAI._get_state_key
MinimaxAI_get_state_key(state) ==
    <<DOMAIN state.tiles, Elements(state.penguin_positions), state.player_scores, state.current_player>>

\* MinimaxAI.__init__; lookups tells whether _minimax reads the table,
\* frames collects, for every _apply_move call of a search, whether the
\* snapshot it was given is after the call what the node received
MinimaxAI(max_depth, lookups) ==
    [max_depth |-> max_depth, transposition_table |-> <<>>, lookups |-> lookups, frames |-> {}]

\* self.transposition_table[state_key] = score
MinimaxAI_store(ai, state_key, score) ==
    [ai EXCEPT !.transposition_table =
        [k \in DOMAIN @ \cup {state_key} |-> IF k = state_key THEN score ELSE @[k]]]

\* the snapshot after an _apply_move call against the one the node received
MinimaxAI_frame(ai, state, entered) == [ai EXCEPT !.frames = @ \cup {state = entered}]

RECURSIVE MinimaxAI_minimax(_, _, _, _, _, _, _, _)
RECURSIVE MinimaxAI_loop(_, _, _, _, _, _, _)
RECURSIVE MinimaxAI_applied(_, _, _, _, _, _, _)
RECURSIVE MinimaxAI_scored(_, _, _, _, _, _, _)

\* MinimaxAI._minimax, after the depth test and the table lookup
MinimaxAI_expand(ai, state, grid, depth, alpha, beta, is_maximizing, ai_player, possible_moves) ==
    IF possible_moves = <<>>
    THEN [ai |-> MinimaxAI_store(ai, MinimaxAI_get_state_key(state), MinimaxAI_evaluate_state(state, ai_player)),
          val |-> MinimaxAI_evaluate_state(state, ai_player)]
    ELSE MinimaxAI_loop(ai, [state |-> state, entered |-> state, grid |-> grid, depth |-> depth,
                             is_maximizing |-> is_maximizing, ai_player |-> ai_player,
                             possible_moves |-> possible_moves],
                        state, alpha, beta, 1, IF is_maximizing THEN -Infinity ELSE Infinity)

\* MinimaxAI._minimax
MinimaxAI_minimax(ai, state, grid, depth, alpha, beta, is_maximizing, ai_player) ==
    IF depth = 0
    THEN [ai |-> ai, val |-> MinimaxAI_evaluate_state(state, ai_player)]
    ELSE IF ai.lookups /\ MinimaxAI_get_state_key(state) \in DOMAIN ai.transposition_table
    THEN [ai |-> ai, val |-> ai.transposition_table[MinimaxAI_get_state_key(state)]]
    ELSE MinimaxAI_expand(ai, state, grid, depth, alpha, beta, is_maximizing, ai_player,
                          MinimaxAI_get_all_moves(state, grid, state.current_player))

\* MinimaxAI._minimax, the loop over possible_moves from the i-th, and the
\* store after it; state is the snapshot as the earlier calls left it
MinimaxAI_loop(ai, node, state, alpha, beta, i, best) ==
    IF i > Len(node.possible_moves)
    THEN [ai |-> MinimaxAI_store(ai, MinimaxAI_get_state_key(state), best), val |-> best]
    ELSE MinimaxAI_applied(ai, node, MinimaxAI_apply_move(state, node.possible_moves[i], node.grid),
                           alpha, beta, i, best)

\* the recursive call on the snapshot _apply_move returned
MinimaxAI_applied(ai, node, applied, alpha, beta, i, best) ==
    MinimaxAI_scored(MinimaxAI_minimax(MinimaxAI_frame(ai, applied.state, node.entered), applied.new_state,
                                       node.grid, node.depth - 1, alpha, beta,
                                       ~node.is_maximizing, node.ai_player),
                     node, applied.state, alpha, beta, i, best)

\* max_eval / min_eval, alpha / beta and the cut-off after the call
MinimaxAI_scored(searched, node, state, alpha, beta, i, best) ==
    IF node.is_maximizing
    THEN IF beta <= Max(alpha, searched.val)
         THEN [ai |-> MinimaxAI_store(searched.ai, MinimaxAI_get_state_key(state), Max(best, searched.val)),
               val |-> Max(best, searched.val)]
         ELSE MinimaxAI_loop(searched.ai, node, state, Max(alpha, searched.val), beta, i + 1, Max(best, searched.val))
    ELSE IF Min(beta, searched.val) <= alpha
         THEN [ai |-> MinimaxAI_store(searched.ai, MinimaxAI_get_state_key(state), Min(best, searched.val)),
               val |-> Min(best, searched.val)]
         ELSE MinimaxAI_loop(searched.ai, node, state, alpha, Min(beta, searched.val), i + 1, Min(best, searched.val))

RECURSIVE MinimaxAI_root_loop(_, _, _, _, _, _)
RECURSIVE MinimaxAI_root_applied(_, _, _, _, _, _)
RECURSIVE MinimaxAI_root_scored(_, _, _, _, _, _)

\* MinimaxAI.get_best_move, the loop over possible_moves from the i-th;
\* given is the snapshot as the earlier calls left it
MinimaxAI_root_loop(ai, root, given, i, best_move, best_score) ==
    IF i > Len(root.possible_moves)
    THEN [ai |-> ai, given |-> given, best_move |-> best_move]
    ELSE MinimaxAI_root_applied(ai, root, MinimaxAI_apply_move(given, root.possible_moves[i], root.grid),
                                i, best_move, best_score)

\* the call of _minimax on the snapshot _apply_move returned
MinimaxAI_root_applied(ai, root, applied, i, best_move, best_score) ==
    MinimaxAI_root_scored(MinimaxAI_minimax(MinimaxAI_frame(ai, applied.state, root.entered), applied.new_state,
                                            root.grid, ai.max_depth - 1, -Infinity, Infinity, FALSE,
                                            root.player_index),
                          root, applied.state, i, best_move, best_score)

\* if score > best_score: the first of the best moves is kept
MinimaxAI_root_scored(searched, root, given, i, best_move, best_score) ==
    IF searched.val > best_score
    THEN MinimaxAI_root_loop(searched.ai, root, given, i + 1, root.possible_moves[i], searched.val)
    ELSE MinimaxAI_root_loop(searched.ai, root, given, i + 1, best_move, best_score)

\* MinimaxAI.get_best_move: the table is cleared, None without a move
MinimaxAI_get_best_move(ai, given, grid, player_index) ==
    MinimaxAI_root_loop([ai EXCEPT !.transposition_table = <<>>],
                        [entered |-> given, grid |-> grid, player_index |-> player_index,
                         possible_moves |-> MinimaxAI_get_all_moves(given, grid, player_index)],
                        given, 1, None, -Infinity)

\* fish1.py FishGame._get_valid_moves, the while loop: the walk adds the
\* row and column offset of the first step to current at every step
RECURSIVE fish1_trace(_, _, _, _)
fish1_trace(t, pp, current, d) ==
    IF current \in DOMAIN t /\ ~dict_has(pp, current)
    THEN <<current>>
         \o (IF \/ <<current[1] + d[1], current[2] + d[2]>> \notin DOMAIN t
                \/ dict_has(pp, <<current[1] + d[1], current[2] + d[2]>>)
             THEN <<>>
             ELSE fish1_trace(t, pp, <<current[1] + d[1], current[2] + d[2]>>, d))
    ELSE <<>>

\* fish1.py FishGame._get_valid_moves, the loop over the neighbours from the i-th
RECURSIVE fish1_neighbors_from(_, _, _, _, _)
fish1_neighbors_from(t, pp, start, neighbors, i) ==
    IF i > Len(neighbors) THEN <<>>
    ELSE (IF dict_has(pp, neighbors[i]) \/ neighbors[i] \notin DOMAIN t
          THEN <<>>
          ELSE fish1_trace(t, pp, neighbors[i],
                           <<neighbors[i][1] - start[1], neighbors[i][2] - start[2]>>))
         \o fish1_neighbors_from(t, pp, start, neighbors, i + 1)

\* fish1.py FishGame._get_valid_moves
fish1_get_valid_moves(t, pp, start) ==
    fish1_neighbors_from(t, pp, start, HexGrid_get_neighbors(t, start), 1)

\* fish1.py FishGame._move_penguin
fish1_move_penguin(g, from_pos, to_pos) ==
    IF ~dict_has(g.penguin_positions, from_pos)
    THEN raise(g)   \* penguin_positions.pop(from_pos): KeyError
    ELSE
    LET player_index == dict_get(g.penguin_positions, from_pos)
        removed == remove_tile(g.tiles, from_pos)
        g1 == [g EXCEPT
                 !.penguin_positions = dict_set(dict_del(g.penguin_positions, from_pos), to_pos, player_index),
                 !.tiles = removed.tiles,
                 !.players[player_index].fish_count = @ + removed.fish]
    IN  IF ~InList(from_pos, g.players[player_index].penguins)
        THEN raise(g1)   \* player.penguins.remove(from_pos): ValueError
        ELSE [g1 EXCEPT !.players[player_index].penguins = Append(ListRemove(@, from_pos), to_pos)]

\* fish1.py FishGame._end_game
fish1_end_game(g) == [g EXCEPT !.game_state = GAME_OVER]

\* fish1.py FishGame._next_turn, "can_move" for the player to move
fish1_can_move(g) ==
    \E i \in 1..Len(g.players[g.current_player_index].penguins) :
        fish1_get_valid_moves(g.tiles, g.penguin_positions, g.players[g.current_player_index].penguins[i]) # <<>>

\* fish1.py FishGame._next_turn, the while loop
RECURSIVE fish1_next_turn_loop(_, _)
fish1_next_turn_loop(g, original_player) ==
    IF fish1_can_move([g EXCEPT !.current_player_index = (@ + 1) % NumPlayers(g)])
    THEN [g EXCEPT !.current_player_index = (@ + 1) % NumPlayers(g)]
    ELSE IF (g.current_player_index + 1) % NumPlayers(g) = original_player
    THEN fish1_end_game([g EXCEPT !.current_player_index = (@ + 1) % NumPlayers(g)])
    ELSE fish1_next_turn_loop([g EXCEPT !.current_player_index = (@ + 1) % NumPlayers(g)], original_player)

\* fish1.py FishGame._next_turn
fish1_next_turn(g) == fish1_next_turn_loop(g, g.current_player_index)

\* [p.fish_count for p in self.players]
fish1_scores(g) == [p \in DOMAIN g.players |-> g.players[p].fish_count]

\* fish1.py FishGame._ai_make_move, the snapshot of the live position
fish1_current_state(g) ==
    GameStateSnapshot(g.tiles, g.penguin_positions, fish1_scores(g), g.current_player_index)

\* fish1.py FishGame._ai_make_move, the call of get_best_move; the grid
\* passed is the live one
fish1_best_move(g, lookups) ==
    MinimaxAI_get_best_move(MinimaxAI(g.minimax_depth, lookups), fish1_current_state(g), g.tiles,
                            g.current_player_index)

\* fish1.py FishGame._ai_make_move, after get_best_move returned
fish1_play(g, best_move) ==
    IF best_move = None THEN g
    ELSE fish1_next_turn(fish1_move_penguin(g, best_move.from_pos, best_move.to_pos))

\* fish1.py FishGame._ai_make_move
fish1_ai_make_move(g) == fish1_play(g, fish1_best_move(g, TRUE).best_move)

\* fish1.py FishGame._handle_gameplay_click
fish1_handle_gameplay_click(g, pos) ==
    IF dict_has(g.penguin_positions, pos)
    THEN IF dict_get(g.penguin_positions, pos) = g.current_player_index
         THEN [g EXCEPT !.selected_penguin = pos,
                        !.valid_moves = fish1_get_valid_moves(g.tiles, g.penguin_positions, pos)]
         ELSE g
    ELSE IF g.selected_penguin # None /\ InList(pos, g.valid_moves)
    THEN fish1_next_turn([fish1_move_penguin(g, g.selected_penguin, pos) EXCEPT
                             !.selected_penguin = None, !.valid_moves = <<>>])
    ELSE g

\* fish1.py FishGame.on_mouse_press while playing
fish1_on_mouse_press(g, pos) ==
    IF g.players[g.current_player_index].is_ai THEN g
    ELSE IF g.game_state = PLAYING THEN fish1_handle_gameplay_click(g, pos)
    ELSE g

(* A state machine for fish1.py: it starts in any playing position of the  *)
(* full board in which the computer (the older player, index 1) is to      *)
(* move, the penguins having been placed in row-major order from the first *)
(* or from the fifth of their cells on, and lets the computer's timer fire *)
(* and the human click.                                                    *)

\* FishGame.__init__ of fish1.py: MinimaxAI(max_depth=4)
Fish1Depth == 4

\* the first cells of the placement orders explored
Fish1Starts == {0, 4}

\* the cells of S in row-major order, from the one of index first on
Fish1Order(S, first) ==
    LET sorted == PlacedFrom(S, 1, 0, 0)
    IN  [i \in 1..Len(sorted) |-> sorted[((i - 1 + first) % Len(sorted)) + 1]]

\* the dict _place_penguin_at fills when the cells are taken in this order
\* by the players 0, 1, 0, 1, ...
Fish1Positions(order) == [i \in 1..Len(order) |-> <<order[i], (i - 1) % 2>>]

Fish1Init ==
    /\ \E S \in SUBSET Cells :
       \E first \in Fish1Starts :
          /\ Cardinality(S) = 2 * (PenguinBase - 2)
          /\ tiles = [pos \in Cells |-> GeneratedFish(pos, 1)]
          /\ penguin_positions = Fish1Positions(Fish1Order(S, first))
          /\ players = [p \in 0..1 |->
                           [is_ai |-> p > 0, fish_count |-> 0,
                            penguins |-> dict_keys_of(Fish1Positions(Fish1Order(S, first)), p)]]
    /\ current_player_index = 1
    /\ game_state = PLAYING
    /\ selected_penguin = None
    /\ valid_moves = <<>>
    /\ current_animation = None
    /\ animation_queue = <<>>
    /\ ai_move_timer = 0
    /\ minimax_depth = Fish1Depth
    /\ move_history = <<>>
    /\ winners = <<>>
    /\ crashed = FALSE

\* the frame in which the computer's timer fires: _ai_make_move runs
Fish1AiMakeMove ==
    /\ Running
    /\ game_state = PLAYING
    /\ players[current_player_index].is_ai
    /\ Become(fish1_ai_make_move(Self))

\* a click of the human on a cell
Fish1OnMousePress ==
    /\ Running
    /\ \E pos \in Cells : Become(fish1_on_mouse_press(Self, pos))

Fish1Next == Fish1AiMakeMove \/ Fish1OnMousePress

Fish1Spec == Fish1Init /\ [][Fish1Next]_vars

----------------------------------------------------------------------------
(* Claims about fish1.py.                                                  *)

\* the computer of fish1.py is to move
Fish1ComputerToMove ==
    /\ Running
    /\ game_state = PLAYING
    /\ players[current_player_index].is_ai

\* C27: _apply_move leaves the snapshot it is given as it was: during a
\* search from any position in which the computer is to move, after every
\* _apply_move call of get_best_move and of _minimax the given snapshot is
\* the one the node received (so every sibling move is applied to the same
\* state), and when get_best_move returns, the snapshot made of the live
\* tiles, positions, scores and player to move still holds these values.
C27_ApplyMoveLeavesSnapshot ==
    Fish1ComputerToMove =>
        \A found \in {fish1_best_move(Self, TRUE)} :
            /\ FALSE \notin found.ai.frames
            /\ found.given = GameStateSnapshot(tiles, penguin_positions, fish1_scores(Self), current_player_index)

\* a search in which the root applies several sibling moves and a move is chosen
C27_Witness ==
    /\ Fish1ComputerToMove
    /\ Len(MinimaxAI_get_all_moves(fish1_current_state(Self), tiles, current_player_index)) >= 2
    /\ \E found \in {fish1_best_move(Self, TRUE)} :
           TRUE \in found.ai.frames /\ found.best_move # None

\* C28: from every position in which the computer is to move, get_best_move
\* returns the move that the same alpha-beta search returns when _minimax
\* never reads the transposition table.
C28_TableKeepsTheMove ==
    Fish1ComputerToMove =>
        fish1_best_move(Self, TRUE).best_move = fish1_best_move(Self, FALSE).best_move

\* C29: from every position in which the computer is to move, the move
\* get_best_move returns, if any, starts on a penguin of the player to move
\* and ends on a cell that FishGame._get_valid_moves of fish1.py lists for
\* that penguin.
C29_BestMoveIsLegal ==
    Fish1ComputerToMove =>
        \A best_move \in {fish1_best_move(Self, TRUE).best_move} :
            best_move # None =>
                /\ dict_has(penguin_positions, best_move.from_pos)
                /\ dict_get(penguin_positions, best_move.from_pos) = current_player_index
                /\ InList(best_move.to_pos, fish1_get_valid_moves(tiles, penguin_positions, best_move.from_pos))

\* the computer moves after the human has moved, from a position in which
\* the two move generators differ for one of its penguins
C29_Witness ==
    /\ Fish1ComputerToMove
    /\ players[0].fish_count > 0
    /\ fish1_best_move(Self, TRUE).best_move # None
    /\ \E i \in 1..Len(players[current_player_index].penguins) :
           MinimaxAI_get_valid_moves(fish1_current_state(Self), tiles, players[current_player_index].penguins[i])
               # fish1_get_valid_moves(tiles, penguin_positions, players[current_player_index].penguins[i])

----------------------------------------------------------------------------
(* fish2.py and fish_ui.py: the move generator that looks, at every step,  *)
(* for the neighbour whose row and column offset equal those of the first  *)
(* step.  The text of the two files is the same in these methods.          *)

\* HexGrid.get_direction_neighbors of fish2.py: the six offsets of a column
fish2_get_direction_neighbors(pos) == IF pos[2] % 2 = 0 THEN EvenDirections ELSE OddDirections

\* fish2.py FishGame._get_valid_moves, the while loop from current with the
\* offset d of the first step
RECURSIVE fish2_trace(_, _, _, _)
fish2_trace(t, pp, current, d) ==
    IF current \notin DOMAIN t \/ current \in DOMAIN pp THEN <<>>
    ELSE <<current>>
         \o (IF InList(d, fish2_get_direction_neighbors(current))
             THEN fish2_trace(t, pp, <<current[1] + d[1], current[2] + d[2]>>, d)
             ELSE <<>>)

\* fish2.py FishGame._get_valid_moves, the loop over the six directions from the i-th
RECURSIVE fish2_directions_from(_, _, _, _)
fish2_directions_from(t, pp, start, i) ==
    IF i > Len(fish2_get_direction_neighbors(start)) THEN <<>>
    ELSE fish2_trace(t, pp, <<start[1] + fish2_get_direction_neighbors(start)[i][1],
                              start[2] + fish2_get_direction_neighbors(start)[i][2]>>,
                     fish2_get_direction_neighbors(start)[i])
         \o fish2_directions_from(t, pp, start, i + 1)

\* fish2.py FishGame._get_valid_moves
fish2_get_valid_moves(t, pp, start) == fish2_directions_from(t, pp, start, 1)

\* fish_ui.py FishGame._get_valid_moves: the same statements as in fish2.py
fish_ui_get_valid_moves(t, pp, start) == fish2_directions_from(t, pp, start, 1)

\* C30: for every board, occupancy and penguin, _get_valid_moves of
\* fish2.py and of fish_ui.py return the destinations that _get_valid_moves
\* of Fish_game.py returns.
C30_SameDestinations ==
    \A pos \in DOMAIN penguin_positions :
        /\ Elements(fish2_get_valid_moves(tiles, penguin_positions, pos))
               = Elements(get_valid_moves(tiles, penguin_positions, pos))
        /\ Elements(fish_ui_get_valid_moves(tiles, penguin_positions, pos))
               = Elements(get_valid_moves(tiles, penguin_positions, pos))

====
